---- MODULE Spec2Model ----
(***************************************************************************)
(* A model of the Song colour-wave library: the colour utilities           *)
(* (utils/index.ts), the ColorExtractor pipeline and the Song facade       *)
(* (core), and the WaveGenerator (core/wave-extractor.ts).                 *)
(*                                                                         *)
(* Numbers.  JavaScript numbers are doubles; the model is over integers:   *)
(*   - a luminance is kept in units of 1/2000 (see calculateBrightness);   *)
(*   - a saturation or a harmony score is a fraction, kept as a record     *)
(*     [num, den] with den > 0.                                            *)
(* Strings are TLA+ strings; \o is concatenation and SubSeq is substring.  *)
(***************************************************************************)
EXTENDS Integers, Sequences, FiniteSets, TLC

VARIABLES
    \* ---- a single call of one utility function: its arguments and value
    called,      \* the function applied, "none" before the call
    inColors,    \* argument: a list of RGB colours
    inCount,     \* argument: the requested count
    inHex,       \* argument: a list of hex colour strings
    inPixels,    \* argument: a buffer of RGBA bytes
    out,         \* the value returned
    \* ---- WaveGenerator
    config,      \* this.config
    \* ---- the hosting environment and ColorExtractor
    browser,     \* isBrowser(): window and document exist
    canvas,      \* this.canvas is not null
    ctx,         \* this.ctx is not null
    canvasData,  \* what the canvas holds: "blank" or the image drawn on it last
    options,     \* this.options
    \* ---- Song
    cache,       \* this.cache: a function from the cached identifiers to hex lists
    calls,       \* the createWaves calls in flight, by slot
    resolved,    \* <<e>>: the step just taken settled a createWaves call as e; else <<>>
    history      \* per identifier, since the cache was last cleared: the colours
                 \* of the first and of the latest successful extraction

harnessVars == <<called, inColors, inCount, inHex, inPixels, out>>
songVars == <<browser, canvas, ctx, canvasData, options, cache, calls, resolved, history>>
vars == <<harnessVars, config, songVars>>

(***************************************************************************)
(* Bounds of the model.                                                    *)
(***************************************************************************)
MaxCands == 3       \* longest candidate list handed to filterColors
MaxCount == 3       \* largest requested count
MaxList == 3        \* longest colour list handed to calculateHarmony, analyzeColorMood
MaxStops == 3       \* longest hex colour list handed to the gradient composer
MaxColorCount == 3  \* largest configured colorCount
MaxInFlight == 2    \* createWaves calls in flight at a time

RGB(r, g, b) == [r |-> r, g |-> g, b |-> b]

Abs(n) == IF n < 0 THEN -n ELSE n
Min2(a, b) == IF a <= b THEN a ELSE b
Max2(a, b) == IF a >= b THEN a ELSE b

\* Array.prototype.slice(0, end)
Slice0(s, end) ==
    LET e == IF end < 0 THEN Max2(Len(s) + end, 0) ELSE Min2(end, Len(s))
    IN  SubSeq(s, 1, e)

\* All sequences over S of length at most n.
SeqUpTo(S, n) == UNION {[1..k -> S] : k \in 0..n}

(***************************************************************************)
(* utils/index.ts                                                          *)
(***************************************************************************)

\* The rounding of 0.299r + 0.587g + 0.114b in double arithmetic, as far as
\* it can be seen by a comparison with 40 or 200: of all 2^24 colours, the
\* sum is exactly 40 or exactly 200 in the reals but not in doubles for two.
FloatSkew(color) ==
    IF color = RGB(14, 48, 67) THEN -1          \* 39.99999999999999
    ELSE IF color = RGB(144, 226, 213) THEN 1   \* 200.00000000000003
    ELSE 0

\* calculateBrightness, in units of 1/2000.
calculateBrightness(color) ==
    2 * (299 * color.r + 587 * color.g + 114 * color.b) + FloatSkew(color)

calculateColorDifference(color1, color2) ==
    Abs(color1.r - color2.r) + Abs(color1.g - color2.g) + Abs(color1.b - color2.b)

\* A plausible slip: only the colour accepted last is compared.
isColorUnique_lastOnly(color, existingColors, threshold) ==
    \/ Len(existingColors) = 0
    \/ ~(calculateColorDifference(color, existingColors[Len(existingColors)]) < threshold)

isColorUnique(color, existingColors, threshold) ==
    ~ \E k \in 1..Len(existingColors) :
          calculateColorDifference(color, existingColors[k]) < threshold

\* Fractions [num, den], den > 0, kept in lowest terms.
RECURSIVE Gcd(_, _)
Gcd(a, b) == IF b = 0 THEN a ELSE Gcd(b, a % b)

Frac(n, d) ==
    LET g == Gcd(Abs(n), d)
    IN  [num |-> n \div g, den |-> d \div g]

FracAdd(x, y) == Frac(x.num * y.den + y.num * x.den, x.den * y.den)

Max3(a, b, c) == Max2(a, Max2(b, c))
Min3(a, b, c) == Min2(a, Min2(b, c))

\* max === 0 ? 0 : (max - min) / max
Saturation(color) ==
    LET max == Max3(color.r, color.g, color.b)
        min == Min3(color.r, color.g, color.b)
    IN  IF max = 0 THEN Frac(0, 1) ELSE Frac(max - min, max)

\* The forEach: [totalSaturation, totalBrightness] over the colours from i on.
RECURSIVE MoodTotals(_, _, _)
MoodTotals(colors, i, acc) ==
    IF i > Len(colors) THEN acc
    ELSE MoodTotals(colors, i + 1,
             [totalSaturation |-> FracAdd(acc.totalSaturation, Saturation(colors[i])),
              totalBrightness |-> acc.totalBrightness + calculateBrightness(colors[i])])

\* The thresholds on the averages, each test multiplied out: avgBrightness is
\* totalBrightness / (2000 n), avgSaturation is num / (den n).
BrightnessAbove(totals, n, t) == totals.totalBrightness > 2000 * t * n
BrightnessBelow(totals, n, t) == totals.totalBrightness < 2000 * t * n
SaturationAbove(totals, n, tenths) ==
    10 * totals.totalSaturation.num > tenths * totals.totalSaturation.den * n
SaturationBelow(totals, n, tenths) ==
    10 * totals.totalSaturation.num < tenths * totals.totalSaturation.den * n

\* A plausible slip: the bright rule tested before the vibrant rule.
analyzeColorMood_brightFirst(colors) ==
    IF Len(colors) = 0 THEN "neutral"
    ELSE LET n == Len(colors)
             t == MoodTotals(colors, 1, [totalSaturation |-> Frac(0, 1),
                                         totalBrightness |-> 0])
         IN  IF BrightnessAbove(t, n, 180) /\ SaturationAbove(t, n, 5) THEN "energetic"
             ELSE IF BrightnessBelow(t, n, 80) /\ SaturationBelow(t, n, 3) THEN "calm"
             ELSE IF BrightnessAbove(t, n, 150) THEN "bright"
             ELSE IF SaturationAbove(t, n, 7) THEN "vibrant"
             ELSE IF BrightnessBelow(t, n, 100) THEN "dark"
             ELSE "balanced"

analyzeColorMood(colors) ==
    IF Len(colors) = 0 THEN "neutral"
    ELSE LET n == Len(colors)
             t == MoodTotals(colors, 1, [totalSaturation |-> Frac(0, 1),
                                         totalBrightness |-> 0])
         IN  IF BrightnessAbove(t, n, 180) /\ SaturationAbove(t, n, 5) THEN "energetic"
             ELSE IF BrightnessBelow(t, n, 80) /\ SaturationBelow(t, n, 3) THEN "calm"
             ELSE IF SaturationAbove(t, n, 7) THEN "vibrant"
             ELSE IF BrightnessAbove(t, n, 150) THEN "bright"
             ELSE IF BrightnessBelow(t, n, 100) THEN "dark"
             ELSE "balanced"

\* A plausible slip: the score of a pair is not clamped at 0.
PairScore_noClamp(diff) == 150 - Abs(diff - 150)

\* Math.max(0, 1 - Math.abs(diff - idealDiff) / idealDiff), in units of 1/150.
PairScore(diff) == Max2(0, 150 - Abs(diff - 150))

\* The two nested for loops: [harmonyScore (in 1/150), comparisons].
RECURSIVE HarmonyLoop(_, _, _, _)
HarmonyLoop(colors, i, j, acc) ==
    IF i > Len(colors) THEN acc
    ELSE IF j > Len(colors) THEN HarmonyLoop(colors, i + 1, i + 2, acc)
    ELSE HarmonyLoop(colors, i, j + 1,
             [harmonyScore |-> acc.harmonyScore
                  + PairScore(calculateColorDifference(colors[i], colors[j])),
              comparisons |-> acc.comparisons + 1])

calculateHarmony(colors) ==
    IF Len(colors) < 2 THEN Frac(1, 1)
    ELSE LET acc == HarmonyLoop(colors, 1, 2, [harmonyScore |-> 0, comparisons |-> 0])
         IN  IF acc.comparisons > 0
             THEN Frac(acc.harmonyScore, 150 * acc.comparisons)
             ELSE Frac(1, 1)

\* rgbToHex
HexDigits == "0123456789abcdef"
HexDigit(k) == SubSeq(HexDigits, k + 1, k + 1)

\* Math.round(Math.max(0, Math.min(255, n))).toString(16).padStart(2, "0")
toHex(n) ==
    LET m == Max2(0, Min2(255, n))
    IN  IF m < 16 THEN "0" \o HexDigit(m) ELSE HexDigit(m \div 16) \o HexDigit(m % 16)

rgbToHex(rgb) == "#" \o toHex(rgb.r) \o toHex(rgb.g) \o toHex(rgb.b)

\* parseInt of one character matching [a-f\d], case-insensitively (/i).
HexValues ==
    [ch \in {HexDigit(k) : k \in 0..15} |-> CHOOSE k \in 0..15 : HexDigit(k) = ch]
        @@ [ch \in {SubSeq("ABCDEF", k, k) : k \in 1..6} |->
               9 + CHOOSE k \in 1..6 : SubSeq("ABCDEF", k, k) = ch]

\* /^#?([a-f\d]{2})([a-f\d]{2})([a-f\d]{2})$/i.exec(hex), then parseInt(.., 16):
\* <<rgb>> on a match, <<>> (null) on none.
hexToRgb(hex) ==
    LET body == IF Len(hex) = 7 /\ SubSeq(hex, 1, 1) = "#" THEN SubSeq(hex, 2, 7) ELSE hex
        v == [k \in 1..Len(body) |-> HexValues[SubSeq(body, k, k)]]
    IN  IF Len(body) = 6 /\ \A k \in 1..6 : SubSeq(body, k, k) \in DOMAIN HexValues
        THEN << RGB(16 * v[1] + v[2], 16 * v[3] + v[4], 16 * v[5] + v[6]) >>
        ELSE <<>>

\* Array.prototype.join(", ")
RECURSIVE Join(_, _)
Join(strs, i) ==
    IF i > Len(strs) THEN ""
    ELSE IF i = Len(strs) THEN strs[i]
    ELSE strs[i] \o ", " \o Join(strs, i + 1)

\* A plausible slip: the padded list is not cut back to two colours.
generateWaveCSS_noSlice(colors, direction, waveType) ==
    LET cs == IF Len(colors) < 2
              THEN colors \o <<"#6B46C1", "#EC4899">>
              ELSE colors
    IN  CASE waveType = "radial" -> "radial-gradient(circle, " \o Join(cs, 1) \o ")"
          [] waveType = "conic" -> "conic-gradient(" \o Join(cs, 1) \o ")"
          [] OTHER -> "linear-gradient(" \o direction \o ", " \o Join(cs, 1) \o ")"

generateWaveCSS(colors, direction, waveType) ==
    LET cs == IF Len(colors) < 2
              THEN Slice0(colors \o <<"#6B46C1", "#EC4899">>, 2)
              ELSE colors
    IN  CASE waveType = "radial" -> "radial-gradient(circle, " \o Join(cs, 1) \o ")"
          [] waveType = "conic" -> "conic-gradient(" \o Join(cs, 1) \o ")"
          [] OTHER -> "linear-gradient(" \o direction \o ", " \o Join(cs, 1) \o ")"

getFallbackColors(intensity) ==
    CASE intensity = "gentle" -> <<"#E8E3F3", "#F3E8FF">>
      [] intensity = "energetic" -> <<"#FF6B6B", "#4ECDC4">>
      [] OTHER -> <<"#6B46C1", "#EC4899">>

getTransitionTiming(flowSpeed) ==
    CASE flowSpeed = "slow" -> "all 3s cubic-bezier(0.4, 0, 0.2, 1)"
      [] flowSpeed = "fast" -> "all 0.8s cubic-bezier(0.4, 0, 0.2, 1)"
      [] OTHER -> "all 1.5s cubic-bezier(0.4, 0, 0.2, 1)"

(***************************************************************************)
(* core/wave-extractor.ts: WaveGenerator                                   *)
(***************************************************************************)
\* A partial configuration is a function on the keys it gives.
Has(o, k) == k \in DOMAIN o

\* o[k] is given and, a string, not the empty one: if (o.k)
Truthy(o, k) == Has(o, k) /\ o[k] # ""

\* { ...base, ...over }, for `over` giving some of the keys of `base`
Spread(base, over) ==
    [k \in DOMAIN base |-> IF Has(over, k) THEN over[k] ELSE base[k]]

DefaultConfig ==
    [direction |-> "to bottom right",
     transition |-> "all 1.5s ease-out",
     fallbackColors |-> <<"#6B46C1", "#EC4899">>,
     colorCount |-> 2,
     flowSpeed |-> "medium",
     intensity |-> "medium",
     waveType |-> "linear"]

\* new WaveGenerator(given)
WaveGeneratorNew(given) ==
    LET merged == Spread(DefaultConfig, given)
        timed == IF ~Truthy(given, "transition")
                 THEN [merged EXCEPT !["transition"] = getTransitionTiming(merged["flowSpeed"])]
                 ELSE merged
    IN  IF ~Has(given, "fallbackColors")
        THEN [timed EXCEPT !["fallbackColors"] = getFallbackColors(timed["intensity"])]
        ELSE timed

\* WaveGenerator.updateConfig(newConfig), on configuration cfg
updateConfig(cfg, newConfig) ==
    LET merged == Spread(cfg, newConfig)
        timed == IF Truthy(newConfig, "flowSpeed") /\ ~Truthy(newConfig, "transition")
                 THEN [merged EXCEPT !["transition"] = getTransitionTiming(newConfig["flowSpeed"])]
                 ELSE merged
    IN  IF Truthy(newConfig, "intensity") /\ ~Has(newConfig, "fallbackColors")
        THEN [timed EXCEPT !["fallbackColors"] = getFallbackColors(newConfig["intensity"])]
        ELSE timed

\* The while loop of ensureMinimumColors.
RECURSIVE EnsureLoop(_, _, _)
EnsureLoop(result, fallbacks, colorCount) ==
    IF Len(result) < colorCount /\ Len(fallbacks) > 0
    THEN EnsureLoop(Append(result, Head(fallbacks)), Tail(fallbacks), colorCount)
    ELSE result

ensureMinimumColors(cfg, colors) ==
    IF Len(colors) >= cfg.colorCount
    THEN Slice0(colors, cfg.colorCount)
    ELSE Slice0(EnsureLoop(colors, cfg.fallbackColors, cfg.colorCount), cfg.colorCount)

\* WaveGenerator.generateCSS(colors), on configuration cfg
generateCSS(cfg, colors) ==
    generateWaveCSS(ensureMinimumColors(cfg, colors), cfg.direction, cfg.waveType)

(***************************************************************************)
(* ColorExtractor.filterColors                                             *)
(***************************************************************************)
Purple == RGB(107, 70, 193)   \* #6B46C1
Pink   == RGB(236, 72, 153)   \* #EC4899

\* A plausible slip: && for ||, which rejects nothing.
OutOfBand_and(brightness) == brightness < 80000 /\ brightness > 400000

\* brightness < 40 || brightness > 200
OutOfBand(brightness) == brightness < 80000 \/ brightness > 400000

\* The for loop: the candidates from index i on, `filtered` accepted so far.
RECURSIVE FilterLoop(_, _, _, _)
FilterLoop(colors, i, filtered, targetCount) ==
    IF i > Len(colors) THEN filtered
    ELSE LET color == colors[i]
             brightness == calculateBrightness(color)
         IN  IF OutOfBand(brightness)
             THEN FilterLoop(colors, i + 1, filtered, targetCount)   \* continue
             ELSE LET pushed == IF isColorUnique(color, filtered, 80)
                                THEN Append(filtered, color)
                                ELSE filtered
                  IN  IF Len(pushed) >= targetCount
                      THEN pushed                                     \* break
                      ELSE FilterLoop(colors, i + 1, pushed, targetCount)

\* A plausible slip: every padding colour is the pink.
RECURSIVE PadLoop_allPink(_, _)
PadLoop_allPink(filtered, targetCount) ==
    IF Len(filtered) < targetCount
    THEN PadLoop_allPink(Append(filtered, Pink), targetCount)
    ELSE filtered

\* The while loop.
RECURSIVE PadLoop(_, _)
PadLoop(filtered, targetCount) ==
    IF Len(filtered) < targetCount
    THEN PadLoop(Append(filtered, IF Len(filtered) = 0 THEN Purple ELSE Pink),
                 targetCount)
    ELSE filtered

\* A plausible slip: the final slice is left out.
filterColors_noSlice(colors, targetCount) ==
    PadLoop(FilterLoop(colors, 1, <<>>, targetCount), targetCount)

filterColors(colors, targetCount) ==
    Slice0(PadLoop(FilterLoop(colors, 1, <<>>, targetCount), targetCount),
           targetCount)

(***************************************************************************)
(* ColorExtractor                                                          *)
(***************************************************************************)
DefaultOptions ==
    [canvasSize |-> 150, sampleRate |-> 32, precision |-> 25, maxColors |-> 8]

\* new ColorExtractor(given): the options
ExtractorOptionsNew(given) == Spread(DefaultOptions, given)

\* ColorExtractor.updateOptions(newOptions), on options opts
updateOptions(opts, newOptions) == Spread(opts, newOptions)

\* The value the model keeps for undefined and for NaN: a typed array read
\* past its end gives undefined, and arithmetic on undefined gives NaN.
NaN == -1

\* pixels[i], i counted from 0
ByteAt(pixels, i) == IF i < Len(pixels) THEN pixels[i + 1] ELSE NaN

\* Math.floor(value / precision) * precision
Quantize(value, precision) ==
    IF value = NaN THEN NaN ELSE (value \div precision) * precision

\* colorMap[colorKey] = (colorMap[colorKey] || 0) + 1.  The map is the list of
\* its entries [key, count] in insertion order, the order Object.entries
\* gives; a key is kept as the triple its string "r,g,b" spells.
Increment(colorMap, colorKey) ==
    IF \E k \in 1..Len(colorMap) : colorMap[k].key = colorKey
    THEN [k \in 1..Len(colorMap) |->
             IF colorMap[k].key = colorKey
             THEN [colorMap[k] EXCEPT !.count = @ + 1]
             ELSE colorMap[k]]
    ELSE Append(colorMap, [key |-> colorKey, count |-> 1])

\* The sampling loop, from byte offset i (0-based) on.
RECURSIVE FrequencyLoop(_, _, _, _)
FrequencyLoop(pixels, i, opts, colorMap) ==
    IF i >= Len(pixels) THEN colorMap
    ELSE LET r == ByteAt(pixels, i)
             g == ByteAt(pixels, i + 1)
             b == ByteAt(pixels, i + 2)
             alpha == ByteAt(pixels, i + 3)
         IN  IF alpha # NaN /\ alpha < 100   \* undefined < 100 is false
             THEN FrequencyLoop(pixels, i + opts.sampleRate, opts, colorMap)
             ELSE FrequencyLoop(pixels, i + opts.sampleRate, opts,
                      Increment(colorMap, << Quantize(r, opts.precision),
                                             Quantize(g, opts.precision),
                                             Quantize(b, opts.precision) >>))

buildColorFrequencyMap(pixels, opts) == FrequencyLoop(pixels, 0, opts, <<>>)

\* sort((a, b) => b.count - a.count): descending and stable.
RECURSIVE SortByFrequency(_)
SortByFrequency(entries) ==
    IF entries = <<>> THEN <<>>
    ELSE LET n == Len(entries)
             first == CHOOSE k \in 1..n :
                          /\ \A j \in 1..n : entries[j].count <= entries[k].count
                          /\ \A j \in 1..(k - 1) : entries[j].count < entries[k].count
         IN  <<entries[first]>> \o
             SortByFrequency([k \in 1..(n - 1) |->
                                  IF k < first THEN entries[k] ELSE entries[k + 1]])

getDominantColors(colorMap, opts) ==
    LET top == Slice0(SortByFrequency(colorMap), opts.maxColors)
    IN  [k \in 1..Len(top) |-> RGB(top[k].key[1], top[k].key[2], top[k].key[3])]

\* What a promise of extractColors settles with.
Resolve(colors) == [ok |-> TRUE, rgb |-> colors, message |-> ""]
Reject(msg) == [ok |-> FALSE, rgb |-> <<>>, message |-> msg]

\* The pixels of an image scaled to the canvas: here 16
\* pixels of 4 bytes, so that the default stride 32 visits pixels 0 and 8.
RECURSIVE Run(_, _)
Run(pixel, n) == IF n = 0 THEN <<>> ELSE pixel \o Run(pixel, n - 1)

Images == {"sunset", "meadow"}

ImageData(image) ==
    IF image = "sunset"
    THEN <<200, 30, 30, 255>> \o Run(<<30, 30, 200, 255>>, 7)
             \o <<200, 30, 30, 255>> \o Run(<<30, 30, 200, 255>>, 7)
    ELSE Run(<<60, 160, 60, 255>>, 8) \o Run(<<255, 255, 255, 50>>, 8)

\* What an HTMLImageElement handed in can hold: an image, no usable image
\* (drawImage throws), or an image of another origin (getImageData throws).
ElementContents == Images \cup {"broken", "cross-origin"}

\* ctx.getImageData(...).data of a canvas holding `data`; setting the width
\* of a canvas leaves it blank, every byte 0.
getImageData(data) ==
    IF data = "blank" THEN Run(<<0, 0, 0, 0>>, 16) ELSE ImageData(data)

\* buildColorFrequencyMap, getDominantColors and filterColors in turn.
SelectColors(pixels, opts, count) ==
    filterColors(getDominantColors(buildColorFrequencyMap(pixels, opts), opts), count)

\* A plausible slip: the pixels are read before the image is drawn.
processImage_readsBeforeDraw(img, data, hasCanvas, hasCtx, opts, count) ==
    IF ~hasCanvas \/ ~hasCtx
    THEN [settled |-> Reject("Canvas not available"), canvasData |-> data]
    ELSE IF data = "cross-origin"
    THEN [settled |-> Reject("SecurityError: the canvas has been tainted by cross-origin data"),
          canvasData |-> data]
    ELSE [settled |-> Resolve(SelectColors(getImageData(data), opts, count)),
          canvasData |-> IF img = "broken" THEN "blank" ELSE img]

\* processImage of a call whose image is img, on the one canvas of the
\* extractor holding `data`, under the options of the moment it runs: what
\* the promise settles with and what the canvas holds afterwards.
processImage(img, data, hasCanvas, hasCtx, opts, count) ==
    IF ~hasCanvas \/ ~hasCtx
    THEN [settled |-> Reject("Canvas not available"), canvasData |-> data]
    ELSE IF img = "broken"
    THEN [settled |-> Reject("InvalidStateError: the image is in the broken state"),
          canvasData |-> "blank"]
    ELSE IF img = "cross-origin"
    THEN [settled |-> Reject("SecurityError: the canvas has been tainted by cross-origin data"),
          canvasData |-> img]
    ELSE LET drawn == img
         IN  [settled |-> Resolve(SelectColors(getImageData(drawn), opts, count)),
              canvasData |-> drawn]

\* The message of the guard of extractColors, its first word in plain ASCII.
RequiresBrowser ==
    "Song: ColorExtractor requires browser environment with Canvas support"

(***************************************************************************)
(* Song                                                                    *)
(***************************************************************************)
Keys == {"a.png", "b.png"}

EmptyCache == [k \in {} |-> <<>>]

\* A plausible slip: the cache is never found to hold the key.
CacheHas_never(cch, key) == FALSE

\* this.cache.has(cacheKey)
CacheHas(cch, key) == key \in DOMAIN cch

\* A plausible slip: an entry already present is kept (first write wins).
CacheSet_keepFirst(cch, key, hexColors) ==
    IF key \in DOMAIN cch THEN cch
    ELSE [k \in DOMAIN cch \cup {key} |-> IF k = key THEN hexColors ELSE cch[k]]

\* this.cache.set(cacheKey, hexColors)
CacheSet(cch, key, hexColors) ==
    [k \in DOMAIN cch \cup {key} |-> IF k = key THEN hexColors ELSE cch[k]]

\* Song.buildWaveResult(colors, isFlowing, rgb?, error?) on configuration cfg;
\* an optional argument is <<>> (left out) or <<value>>.
buildWaveResult(cfg, colors, isFlowing, rgb, error) ==
    LET rgbColors ==
            IF Len(rgb) = 1 THEN rgb[1]
            ELSE [k \in 1..Len(colors) |->
                     LET parsed == hexToRgb(colors[k])
                     IN  IF parsed # <<>> THEN parsed[1] ELSE RGB(107, 70, 193)]
        total == MoodTotals(rgbColors, 1, [totalSaturation |-> Frac(0, 1),
                                           totalBrightness |-> 0])
        n == Len(rgbColors)
        detectedIntensity ==
            IF n > 0 /\ BrightnessAbove(total, n, 180) THEN "energetic"
            ELSE IF n > 0 /\ BrightnessBelow(total, n, 100) THEN "gentle"
            ELSE "medium"
    IN  [colors |-> colors,
         css |-> generateCSS(cfg, colors),
         rgb |-> rgbColors,
         intensity |-> detectedIntensity,
         harmony |-> calculateHarmony(rgbColors),
         mood |-> analyzeColorMood(rgbColors),
         isFlowing |-> isFlowing,
         error |-> error]

\* error instanceof Error ? error.message : "Unknown error"
ErrorMessage(thrown) ==
    IF thrown.isError THEN thrown.message ELSE "Unknown error"

Slots == 1..MaxInFlight

IdleCall ==
    [pc |-> "idle", key |-> "", img |-> "", settled |-> <<>>,
     seen |-> [first |-> <<>>, latest |-> <<>>]]

NoHistory ==
    [first |-> [k \in Keys |-> <<>>], latest |-> [k \in Keys |-> <<>>]]

SongIdle ==
    /\ browser = TRUE
    /\ canvas = TRUE
    /\ ctx = TRUE
    /\ canvasData = "blank"
    /\ options = DefaultOptions
    /\ cache = EmptyCache
    /\ calls = [c \in Slots |-> IdleCall]
    /\ resolved = <<>>
    /\ history = NoHistory

HarnessIdle ==
    /\ called = "none"
    /\ inColors = <<>>
    /\ inCount = 0
    /\ inHex = <<>>
    /\ inPixels = <<>>
    /\ out = <<>>

(***************************************************************************)
(* Spec: one Song in use.  createWaves is an async function: it runs to    *)
(* its await, and after the promise of extractColors settles its           *)
(* continuation runs as a step of its own.  A call that finds its key      *)
(* cached never awaits and settles in the step that starts it.             *)
(*                                                                         *)
(* The optional target element is left out: applyToElement writes the      *)
(* gradient generateCSS(colors) to the element's style, which no operation *)
(* of the library reads.                                                   *)
(***************************************************************************)
Sources ==
    [kind : {"string"}, src : Keys, content : {"url"}]
        \cup [kind : {"element"}, src : Keys, content : ElementContents]

\* The configurations a Song is built with and updated to.
SongConfigs == { <<>> }
ConfigUpdates == { [intensity |-> "energetic"], [intensity |-> "medium"] }
OptionUpdates == { [sampleRate |-> 4], [sampleRate |-> 32] }

Init ==
    /\ HarnessIdle
    /\ \E given \in SongConfigs : config = WaveGeneratorNew(given)
    /\ \E env \in { <<TRUE, TRUE, TRUE>>,      \* a browser with a 2D canvas
                    <<TRUE, TRUE, FALSE>>,     \* getContext("2d") gave null
                    <<FALSE, FALSE, FALSE>> } : \* no window or document
           /\ browser = env[1]
           /\ canvas = env[2]
           /\ ctx = env[3]
    /\ canvasData = "blank"
    /\ options = ExtractorOptionsNew(<<>>)
    /\ cache = EmptyCache
    /\ calls = [c \in Slots |-> IdleCall]
    /\ resolved = <<>>
    /\ history = NoHistory

\* The settling of a createWaves promise, as `resolved` reports it: the
\* call's key, the history of the key when the call started, how the promise
\* settled and with what, whether the call invoked extractColors and whether
\* that extraction failed.
Settled(key, seen, promise, extracted, failed, result) ==
    << [key |-> key, seen |-> seen, promise |-> promise,
        extracted |-> extracted, failed |-> failed, result |-> result] >>

\* Song.createWaves(source, element?) finding its key cached: it returns
\* without awaiting.  c is the least free slot (the call takes none).
createWavesCached(c, cacheKey) ==
    /\ calls[c].pc = "idle"
    /\ \A d \in 1..(c - 1) : calls[d].pc # "idle"
    /\ CacheHas(cache, cacheKey)
    /\ resolved' = Settled(cacheKey,
                       [first |-> history.first[cacheKey],
                        latest |-> history.latest[cacheKey]],
                       "fulfilled", FALSE, FALSE,
                       buildWaveResult(config, cache[cacheKey], TRUE, <<>>, <<>>))
    /\ UNCHANGED <<harnessVars, config, browser, canvas, ctx, canvasData, options, cache, calls,
                   history>>

\* Song.createWaves(source, element?) not finding its key cached, up to its
\* await: extractColors up to the promise it returns, in the least free slot.
createWavesExtract(c, source) ==
    /\ calls[c].pc = "idle"
    /\ \A d \in 1..(c - 1) : calls[d].pc # "idle"
    /\ source.kind = "element" => browser
    /\ ~CacheHas(cache, source.src)
    /\ LET cacheKey == source.src
           seen == [first |-> history.first[cacheKey],
                    latest |-> history.latest[cacheKey]]
           processed == processImage(source.content, canvasData, canvas, ctx, options, 2)
       IN  IF ~browser \/ ~canvas \/ ~ctx
           THEN /\ calls' = [calls EXCEPT ![c] =
                        [pc |-> "awaiting", key |-> cacheKey, img |-> "", seen |-> seen,
                         settled |-> <<Reject(RequiresBrowser)>>]]
                /\ UNCHANGED canvasData
           ELSE IF source.kind = "string"
           THEN /\ calls' = [calls EXCEPT ![c] =
                        [pc |-> "loading", key |-> cacheKey, img |-> "", seen |-> seen,
                         settled |-> <<>>]]
                /\ UNCHANGED canvasData
           ELSE /\ calls' = [calls EXCEPT ![c] =
                        [pc |-> "awaiting", key |-> cacheKey, img |-> source.content,
                         seen |-> seen, settled |-> <<processed.settled>>]]
                /\ canvasData' = processed.canvasData
    /\ resolved' = <<>>
    /\ UNCHANGED <<harnessVars, config, browser, canvas, ctx, options, cache, history>>

\* img.onload of call c fires, the image decoded being `image`.
imageLoaded(c, image) ==
    /\ calls[c].pc = "loading"
    /\ LET processed == processImage(image, canvasData, canvas, ctx, options, 2)
       IN  /\ calls' = [calls EXCEPT ![c].pc = "awaiting",
                                     ![c].img = image,
                                     ![c].settled = <<processed.settled>>]
           /\ canvasData' = processed.canvasData
    /\ resolved' = <<>>
    /\ UNCHANGED <<harnessVars, config, browser, canvas, ctx, options, cache, history>>

\* img.onerror of call c fires.
imageError(c) ==
    /\ calls[c].pc = "loading"
    /\ calls' = [calls EXCEPT ![c].pc = "awaiting",
                              ![c].settled = <<Reject("Failed to load image: " \o calls[c].key)>>]
    /\ resolved' = <<>>
    /\ UNCHANGED <<harnessVars, config, browser, canvas, ctx, canvasData, options, cache, history>>

\* createWaves after its await, extractColors having resolved.
resumeFulfilled(c) ==
    /\ calls[c].pc = "awaiting"
    /\ calls[c].settled[1].ok
    /\ LET cacheKey == calls[c].key
           rgbColors == calls[c].settled[1].rgb
           hexColors == [k \in 1..Len(rgbColors) |-> rgbToHex(rgbColors[k])]
       IN  /\ cache' = CacheSet(cache, cacheKey, hexColors)
           /\ history' = [first |-> [history.first EXCEPT ![cacheKey] =
                                         IF @ = <<>> THEN hexColors ELSE @],
                          latest |-> [history.latest EXCEPT ![cacheKey] = hexColors]]
           /\ resolved' = Settled(cacheKey, calls[c].seen, "fulfilled", TRUE, FALSE,
                              buildWaveResult(config, hexColors, TRUE, <<rgbColors>>, <<>>))
    /\ calls' = [calls EXCEPT ![c] = IdleCall]
    /\ UNCHANGED <<harnessVars, config, browser, canvas, ctx, canvasData, options>>

\* A plausible slip: no catch block, the rejection passes through.
resumeRejected_rethrows(c) ==
    /\ calls[c].pc = "awaiting"
    /\ ~calls[c].settled[1].ok
    /\ resolved' = Settled(calls[c].key, calls[c].seen, "rejected", TRUE, TRUE,
                       buildWaveResult(config, <<>>, FALSE, <<>>,
                                       <<calls[c].settled[1].message>>))
    /\ calls' = [calls EXCEPT ![c] = IdleCall]
    /\ UNCHANGED <<harnessVars, config, browser, canvas, ctx, canvasData, options, cache, history>>

\* A plausible slip: the fallback colours are cached like extracted ones.
resumeRejected_caches(c) ==
    /\ calls[c].pc = "awaiting"
    /\ ~calls[c].settled[1].ok
    /\ LET fallbackColors == config.fallbackColors
       IN  /\ resolved' = Settled(calls[c].key, calls[c].seen, "fulfilled", TRUE, TRUE,
                              buildWaveResult(config, fallbackColors, FALSE, <<>>,
                                  <<ErrorMessage([isError |-> TRUE,
                                                  message |-> calls[c].settled[1].message])>>))
           /\ cache' = CacheSet(cache, calls[c].key, fallbackColors)
    /\ calls' = [calls EXCEPT ![c] = IdleCall]
    /\ UNCHANGED <<harnessVars, config, browser, canvas, ctx, canvasData, options, history>>

\* A plausible slip: the catch block starts the load again.
resumeRejected_retries(c) ==
    /\ calls[c].pc = "awaiting"
    /\ ~calls[c].settled[1].ok
    /\ calls' = [calls EXCEPT ![c].pc = "loading", ![c].settled = <<>>]
    /\ resolved' = <<>>
    /\ UNCHANGED <<harnessVars, config, browser, canvas, ctx, canvasData, options, cache,
                   history>>

\* createWaves after its await, extractColors having thrown or rejected: the
\* catch block.  Every value thrown on these paths is an Error.
resumeRejected(c) ==
    /\ calls[c].pc = "awaiting"
    /\ ~calls[c].settled[1].ok
    /\ LET fallbackColors == config.fallbackColors
       IN  resolved' = Settled(calls[c].key, calls[c].seen, "fulfilled", TRUE, TRUE,
                           buildWaveResult(config, fallbackColors, FALSE, <<>>,
                               <<ErrorMessage([isError |-> TRUE,
                                               message |-> calls[c].settled[1].message])>>))
    /\ calls' = [calls EXCEPT ![c] = IdleCall]
    /\ UNCHANGED <<harnessVars, config, browser, canvas, ctx, canvasData, options, cache, history>>

\* Song.clearCache()
clearCache ==
    /\ cache' = EmptyCache
    /\ history' = NoHistory
    /\ resolved' = <<>>
    /\ UNCHANGED <<harnessVars, config, browser, canvas, ctx, canvasData, options, calls>>

\* Song.updateExtractorOptions(newOptions)
updateExtractorOptions(newOptions) ==
    /\ options' = updateOptions(options, newOptions)
    /\ cache' = EmptyCache
    /\ history' = NoHistory
    /\ resolved' = <<>>
    /\ UNCHANGED <<harnessVars, config, browser, canvas, ctx, canvasData, calls>>

\* Song.updateWaveConfig(newConfig)
updateWaveConfig(newConfig) ==
    /\ config' = updateConfig(config, newConfig)
    /\ resolved' = <<>>
    /\ UNCHANGED <<harnessVars, browser, canvas, ctx, canvasData, options, cache, calls, history>>

\* Song.destroy()
destroy ==
    /\ IF canvas THEN canvas' = FALSE /\ ctx' = FALSE ELSE UNCHANGED <<canvas, ctx>>
    /\ canvasData' = "blank"
    /\ cache' = EmptyCache
    /\ history' = NoHistory
    /\ resolved' = <<>>
    /\ UNCHANGED <<harnessVars, config, browser, options, calls>>

Next ==
    \/ \E c \in Slots, cacheKey \in Keys : createWavesCached(c, cacheKey)
    \/ \E c \in Slots, source \in Sources : createWavesExtract(c, source)
    \/ \E c \in Slots, image \in Images : imageLoaded(c, image)
    \/ \E c \in Slots : imageError(c)
    \/ \E c \in Slots : resumeFulfilled(c)
    \/ \E c \in Slots : resumeRejected(c)
    \/ clearCache
    \/ \E newOptions \in OptionUpdates : updateExtractorOptions(newOptions)
    \/ \E newConfig \in ConfigUpdates : updateWaveConfig(newConfig)
    \/ destroy

Spec == Init /\ [][Next]_vars

TypeOK ==
    /\ DOMAIN cache \subseteq Keys
    /\ \A k \in DOMAIN cache : Len(cache[k]) = 2
    /\ \A c \in Slots : calls[c].pc \in {"idle", "loading", "awaiting"}
    /\ canvasData \in Images \cup {"blank", "cross-origin"}
    /\ Len(resolved) <= 1

\* C5: a createWaves call whose extraction fails (load error, no canvas
\* capability, exception while drawing or reading) resolves, never rejects,
\* with isFlowing = false, the configured fallbackColors and a non-empty
\* error string.
C5_FailureResolvesWithFallback ==
    (Len(resolved) = 1 /\ resolved[1].failed) =>
        /\ resolved[1].promise = "fulfilled"
        /\ resolved[1].result.isFlowing = FALSE
        /\ resolved[1].result.colors = config.fallbackColors
        /\ Len(resolved[1].result.error) = 1
        /\ resolved[1].result.error[1] # ""

\* A load error, after the configuration changed the fallback colours.
C5_Witness ==
    /\ Len(resolved) = 1
    /\ resolved[1].failed
    /\ resolved[1].result.error = <<"Failed to load image: a.png">>
    /\ resolved[1].result.colors = <<"#FF6B6B", "#4ECDC4">>

\* C6 as claimed: a call started after a call for the same identifier
\* completed successfully, the cache not cleared since, returns the colours
\* of that first call, flowing, without invoking extractColors.
C6_LaterCallSameAsFirst ==
    (Len(resolved) = 1 /\ resolved[1].seen.first # <<>>) =>
        /\ resolved[1].result.colors = resolved[1].seen.first
        /\ resolved[1].result.isFlowing
        /\ ~resolved[1].extracted

\* C6 as amended: it returns the colours of the latest successful extraction
\* for the identifier completed before it, flowing, without invoking
\* extractColors.
C6_LaterCallServedFromCache ==
    (Len(resolved) = 1 /\ resolved[1].seen.first # <<>>) =>
        /\ resolved[1].result.colors = resolved[1].seen.latest
        /\ resolved[1].result.isFlowing
        /\ ~resolved[1].extracted

\* A later call served colours another call wrote after the first completed.
C6_Witness ==
    /\ Len(resolved) = 1
    /\ resolved[1].seen.first # <<>>
    /\ resolved[1].seen.latest # resolved[1].seen.first
    /\ resolved[1].result.colors = resolved[1].seen.latest
    /\ ~resolved[1].extracted

\* C7: the cache never stores a failed result.  A step that settles a call
\* with isFlowing = false leaves the cache as it was; the cache changes only
\* by being cleared or by a call that extracted colours and returns them
\* flowing; so every entry holds the colours of a successful extraction.
C7_FailureLeavesCache ==
    /\ [][ /\ (Len(resolved') = 1 /\ ~resolved'[1].result.isFlowing) => cache' = cache
           /\ cache' # cache =>
                 \/ cache' = EmptyCache
                 \/ /\ Len(resolved') = 1
                    /\ resolved'[1].result.isFlowing
                    /\ resolved'[1].extracted
                    /\ DOMAIN cache' = DOMAIN cache \cup {resolved'[1].key}
                    /\ cache'[resolved'[1].key] = resolved'[1].result.colors
                    /\ \A k \in DOMAIN cache \ {resolved'[1].key} : cache'[k] = cache[k]
         ]_vars
    /\ [](\A k \in DOMAIN cache : cache[k] = history.latest[k] /\ cache[k] # <<>>)

\* A call failed while the cache held another identifier's colours only, so
\* a later call for the failed identifier extracts again.
C7_Witness ==
    /\ Len(resolved) = 1
    /\ resolved[1].failed
    /\ ~resolved[1].result.isFlowing
    /\ cache # EmptyCache
    /\ resolved[1].key \notin DOMAIN cache

\* C12: the cache is consulted only when a call starts.  A call that missed
\* the cache and whose extraction resolved resumes with its own extracted
\* colours, whatever the cache holds by then, and writes them: right after
\* it the cache holds one entry for the identifier, the colours of this,
\* the latest, call to complete; the other entries are as they were.
C12_LastWriteWins ==
    [][ \A c \in Slots :
          (calls[c].pc = "awaiting" /\ calls[c].settled[1].ok /\ calls'[c].pc = "idle") =>
              LET rgbColors == calls[c].settled[1].rgb
                  hexColors == [k \in 1..Len(rgbColors) |-> rgbToHex(rgbColors[k])]
              IN  /\ Len(resolved') = 1
                  /\ resolved'[1].extracted
                  /\ resolved'[1].result.isFlowing
                  /\ resolved'[1].result.colors = hexColors
                  /\ DOMAIN cache' = DOMAIN cache \cup {calls[c].key}
                  /\ cache'[calls[c].key] = hexColors
                  /\ \A k \in DOMAIN cache \ {calls[c].key} : cache'[k] = cache[k]
      ]_vars

\* A call that started with nothing cached for its identifier completes
\* after another call wrote other colours for it, and its own replace them.
C12_Witness ==
    /\ Len(resolved) = 1
    /\ resolved[1].extracted
    /\ ~resolved[1].failed
    /\ resolved[1].seen.first = <<>>
    /\ history.first[resolved[1].key] # resolved[1].result.colors
    /\ DOMAIN cache = {resolved[1].key}
    /\ cache[resolved[1].key] = resolved[1].result.colors

\* C13: whenever processImage of a call runs and resolves, in whatever order
\* the load callbacks of the calls in flight fire and whatever the shared
\* canvas held before, the colours are those selected from the pixels of
\* the call's own image.
C13_OwnPixelsOnly ==
    [][ \A c \in Slots :
          (calls[c].pc # "awaiting" /\ calls'[c].pc = "awaiting" /\ calls'[c].settled[1].ok) =>
              calls'[c].settled[1].rgb = SelectColors(ImageData(calls'[c].img), options, 2)
      ]_vars

\* Two calls extracted from different images on the one canvas, the call
\* started first having drawn last.
C13_Witness ==
    /\ calls[1].pc = "awaiting" /\ calls[1].settled[1].ok
    /\ calls[2].pc = "awaiting" /\ calls[2].settled[1].ok
    /\ calls[1].img = "meadow"
    /\ calls[2].img = "sunset"
    /\ canvasData = "meadow"
    /\ calls[1].settled[1].rgb = SelectColors(ImageData("meadow"), options, 2)
    /\ calls[2].settled[1].rgb = SelectColors(ImageData("sunset"), options, 2)
    /\ calls[1].settled[1].rgb # calls[2].settled[1].rgb

\* C16: changing the extractor options invalidates the cache.  A step that
\* changes the options leaves the cache empty, and a call that writes the
\* cache afterwards writes the colours its image gives under the options
\* then in force, so no entry computed under earlier options is present or
\* is written later.
C16_NoEntryFromEarlierOptions ==
    [][ /\ options' # options => cache' = EmptyCache
        /\ \A c \in Slots :
              (calls[c].pc = "awaiting" /\ calls[c].settled[1].ok /\ calls'[c].pc = "idle") =>
                  LET rgbColors == SelectColors(ImageData(calls[c].img), options', 2)
                  IN  cache'[calls[c].key] =
                          [k \in 1..Len(rgbColors) |-> rgbToHex(rgbColors[k])]
      ]_vars

(***************************************************************************)
(* SpecFair: Spec under the scheduling the event loop gives.  A call       *)
(* awaiting a settled promise is resumed (a microtask), and an image load  *)
(* that was started fires its load or its error callback.                  *)
(***************************************************************************)
\* createWaves resumes after its await; it can exactly when it is awaiting.
Resume(c) == resumeFulfilled(c) \/ resumeRejected(c)

\* WF_vars(Resume(c)), with ENABLED <<Resume(c)>>_vars written out as the
\* state predicate it amounts to.
ResumeFair(c) ==
    \/ []<>(calls[c].pc # "awaiting")
    \/ []<><<Resume(c)>>_vars

Fairness ==
    \A c \in Slots :
        /\ WF_vars(imageError(c) \/ \E image \in Images : imageLoaded(c, image))
        /\ ResumeFair(c)

SpecFair == Init /\ [][Next]_vars /\ Fairness

\* The two terminal outcomes of a call.
Succeeded(e) ==
    /\ e.result.isFlowing
    /\ e.result.error = <<>>
    /\ e.key \in DOMAIN cache
    /\ cache[e.key] = e.result.colors

Failed(e) ==
    /\ ~e.result.isFlowing
    /\ Len(e.result.error) = 1
    /\ e.result.colors = config.fallbackColors

\* The steps of one call: it starts, its image loads or fails to, it resumes.
CallSteps ==
    { <<"idle", "loading">>, <<"idle", "awaiting">>,
      <<"loading", "awaiting">>, <<"awaiting", "idle">> }

\* C15: every call is resolved, as a success (flowing, no error, its colours
\* in the cache under its identifier) or as a failure (not flowing, an
\* error, the fallback colours); a call never goes back to an earlier step,
\* so it extracts at most once; and every call in flight is eventually
\* resolved.
C15_EveryCallSettlesOnce ==
    /\ [](Len(resolved) = 1 =>
              /\ resolved[1].promise = "fulfilled"
              /\ Succeeded(resolved[1]) # Failed(resolved[1]))
    /\ [][ \A c \in Slots :
              calls'[c].pc # calls[c].pc => <<calls[c].pc, calls'[c].pc>> \in CallSteps
         ]_vars
    /\ \A c \in Slots :
           (calls[c].pc # "idle") ~> (calls[c].pc = "idle" /\ Len(resolved) = 1)

\* One call has just succeeded through an image load while another, for
\* the same identifier, still waits for its image.
C15_Witness ==
    /\ Len(resolved) = 1
    /\ resolved[1].extracted
    /\ Succeeded(resolved[1])
    /\ \E c \in Slots : calls[c].pc = "loading" /\ calls[c].key = resolved[1].key

(***************************************************************************)
(* SpecFilter: filterColors applied to a candidate list and a count.       *)
(***************************************************************************)
\* Candidates: too dark, too light, on the band's two edges (exactly, and
\* only in the reals), three colours 79 and 80 apart, and the two padding
\* colours themselves.
FilterPalette ==
    { RGB(0, 0, 0), RGB(250, 250, 250),
      RGB(40, 40, 40), RGB(200, 200, 200),
      RGB(14, 48, 67), RGB(144, 226, 213),
      RGB(100, 50, 50), RGB(100, 50, 129), RGB(100, 50, 130),
      Purple }

InitFilter ==
    /\ called = "none"
    /\ inColors \in SeqUpTo(FilterPalette, MaxCands)
    /\ inCount \in 0..MaxCount
    /\ inHex = <<>>
    /\ inPixels = <<>>
    /\ out = <<>>
    /\ config = DefaultConfig
    /\ SongIdle

CallFilterColors ==
    /\ called = "none"
    /\ called' = "filterColors"
    /\ out' = filterColors(inColors, inCount)
    /\ UNCHANGED <<inColors, inCount, inHex, inPixels, config, songVars>>

NextFilter == CallFilterColors

SpecFilter == InitFilter /\ [][NextFilter]_vars

\* The candidates the for loop accepted, and how many of them are returned.
Accepted == FilterLoop(inColors, 1, <<>>, inCount)
NumKept == Min2(Len(Accepted), inCount)

\* C1: filterColors returns exactly the requested number of colours, for
\* every candidate list (the empty one too) and every count >= 0.
C1_LengthIsCount ==
    called = "filterColors" => Len(out) = inCount

C1_Witness ==
    /\ called = "filterColors"
    /\ inCount = 0
    /\ Len(Accepted) = 1
    /\ out = <<>>

\* C2: any two distinct accepted colours that came from the candidates are
\* at Manhattan distance at least 80.
C2_AcceptedFarApart ==
    called = "filterColors" =>
        \A i, j \in 1..NumKept :
            i # j =>
                Abs(out[i].r - out[j].r) + Abs(out[i].g - out[j].g)
                    + Abs(out[i].b - out[j].b) >= 80

C2_Witness ==
    /\ called = "filterColors"
    /\ NumKept = 3
    /\ inColors = <<RGB(100, 50, 50), RGB(40, 40, 40), RGB(100, 50, 130)>>
    /\ out = inColors

\* C3: every accepted colour that came from the candidates has luminance
\* 0.299r + 0.587g + 0.114b within [40, 200].
C3_AcceptedInBand ==
    called = "filterColors" =>
        \A i \in 1..NumKept :
            LET milli == 299 * out[i].r + 587 * out[i].g + 114 * out[i].b
            IN  40000 <= milli /\ milli <= 200000

C3_Witness ==
    /\ called = "filterColors"
    /\ inColors = <<RGB(0, 0, 0), RGB(40, 40, 40), RGB(250, 250, 250)>>
    /\ inCount = 2
    /\ NumKept = 1
    /\ out[1] = RGB(40, 40, 40)

\* n copies of the pink.
Pinks(n) == [k \in 1..n |-> Pink]

\* C4 as claimed: whatever the number accepted, the first padding colour is
\* the purple and every later one the pink.
C4_FirstPadPurple ==
    (called = "filterColors" /\ Len(Accepted) < inCount) =>
        out = SubSeq(Accepted \o <<Purple>> \o Pinks(inCount), 1, inCount)

\* C4 as amended: the purple is appended only when no candidate was
\* accepted, as the first colour; every other padding colour is the pink.
C4_PurpleOnlyWhenEmpty ==
    (called = "filterColors" /\ Len(Accepted) < inCount) =>
        /\ Len(out) = inCount
        /\ \A i \in 1..inCount :
              out[i] = IF i <= Len(Accepted) THEN Accepted[i]
                       ELSE IF i = 1 THEN Purple
                       ELSE Pink

C4_Witness ==
    /\ called = "filterColors"
    /\ inCount = 3
    /\ Len(Accepted) = 1
    /\ out = <<RGB(100, 50, 50), Pink, Pink>>

(***************************************************************************)
(* SpecHarmony: calculateHarmony applied to a colour list.                 *)
(***************************************************************************)
\* Pairs at distance 0, 150 (the ideal), 300, 301 and 765 occur.
HarmonyPalette ==
    { RGB(0, 0, 0), RGB(50, 50, 50), RGB(100, 100, 100), RGB(100, 100, 101),
      RGB(255, 255, 255), RGB(255, 0, 0) }

InitHarmony ==
    /\ called = "none"
    /\ inColors \in SeqUpTo(HarmonyPalette, MaxList)
    /\ inCount = 0
    /\ inHex = <<>>
    /\ inPixels = <<>>
    /\ out = <<>>
    /\ config = DefaultConfig
    /\ SongIdle

CallCalculateHarmony ==
    /\ called = "none"
    /\ called' = "calculateHarmony"
    /\ out' = calculateHarmony(inColors)
    /\ UNCHANGED <<inColors, inCount, inHex, inPixels, config, songVars>>

NextHarmony == CallCalculateHarmony

SpecHarmony == InitHarmony /\ [][NextHarmony]_vars

\* 150 * max(0, 1 - |d - 150| / 150) for the pair p of positions of inColors
ClaimedScore(p) ==
    LET a == inColors[p[1]]
        b == inColors[p[2]]
        d == Abs(a.r - b.r) + Abs(a.g - b.g) + Abs(a.b - b.b)
    IN  IF Abs(d - 150) >= 150 THEN 0 ELSE 150 - Abs(d - 150)

RECURSIVE SumClaimedScores(_)
SumClaimedScores(pairs) ==
    IF pairs = {} THEN 0
    ELSE LET p == CHOOSE q \in pairs : TRUE
         IN  ClaimedScore(p) + SumClaimedScores(pairs \ {p})

UnorderedPairs ==
    {p \in (1..Len(inColors)) \X (1..Len(inColors)) : p[1] < p[2]}

\* C8: calculateHarmony is in [0,1], is exactly 1 for fewer than 2 colours,
\* and for 2 or more is the mean over all unordered pairs of
\* max(0, 1 - |d - 150| / 150), d the pair's Manhattan distance.
C8_HarmonyIsMeanInUnitInterval ==
    called = "calculateHarmony" =>
        /\ out.den > 0
        /\ 0 <= out.num /\ out.num <= out.den
        /\ Len(inColors) < 2 => out.num = out.den
        /\ Len(inColors) >= 2 =>
              out.num * 150 * Cardinality(UnorderedPairs)
                  = out.den * SumClaimedScores(UnorderedPairs)

\* Three colours: one pair at the ideal distance, two pairs too far apart.
C8_Witness ==
    /\ called = "calculateHarmony"
    /\ inColors = <<RGB(0, 0, 0), RGB(50, 50, 50), RGB(255, 255, 255)>>
    /\ out = [num |-> 1, den |-> 3]

(***************************************************************************)
(* SpecMood: analyzeColorMood applied to a colour list.                    *)
(***************************************************************************)
MoodPalette ==
    { RGB(255, 255, 255), RGB(0, 0, 0), RGB(255, 255, 0), RGB(255, 0, 0),
      RGB(255, 150, 0), RGB(100, 100, 100), RGB(90, 90, 90), RGB(10, 3, 3),
      RGB(200, 100, 100) }

InitMood ==
    /\ called = "none"
    /\ inColors \in SeqUpTo(MoodPalette, MaxList)
    /\ inCount = 0
    /\ inHex = <<>>
    /\ inPixels = <<>>
    /\ out = <<>>
    /\ config = DefaultConfig
    /\ SongIdle

CallAnalyzeColorMood ==
    /\ called = "none"
    /\ called' = "analyzeColorMood"
    /\ out' = analyzeColorMood(inColors)
    /\ UNCHANGED <<inColors, inCount, inHex, inPixels, config, songVars>>

NextMood == CallAnalyzeColorMood

SpecMood == InitMood /\ [][NextMood]_vars

\* The sum of the luminances of a list, in thousandths.
RECURSIVE LuminanceSum(_)
LuminanceSum(colors) ==
    IF colors = <<>> THEN 0
    ELSE 299 * Head(colors).r + 587 * Head(colors).g + 114 * Head(colors).b
             + LuminanceSum(Tail(colors))

\* The sum of (max - min) / max (0 when max is 0) of a list, as a fraction.
RECURSIVE SaturationSum(_)
SaturationSum(colors) ==
    IF colors = <<>> THEN Frac(0, 1)
    ELSE LET c == Head(colors)
             hi == CHOOSE x \in {c.r, c.g, c.b} : \A y \in {c.r, c.g, c.b} : y <= x
             lo == CHOOSE x \in {c.r, c.g, c.b} : \A y \in {c.r, c.g, c.b} : x <= y
         IN  FracAdd(IF hi = 0 THEN Frac(0, 1) ELSE Frac(hi - lo, hi),
                     SaturationSum(Tail(colors)))

\* The rule table of the claim on the averages B and S of inColors: rule k
\* matches iff MoodRule[k]; the label is that of the first matching rule.
MoodRule ==
    LET n == Len(inColors)
        b == LuminanceSum(inColors)      \* B = b / (1000 n)
        s == SaturationSum(inColors)     \* S = s.num / (s.den n)
    IN  << b > 180000 * n /\ 2 * s.num > s.den * n,
           b < 80000 * n /\ 10 * s.num < 3 * s.den * n,
           10 * s.num > 7 * s.den * n,
           b > 150000 * n,
           b < 100000 * n >>

MoodLabel == <<"energetic", "calm", "vibrant", "bright", "dark">>

\* C10: analyzeColorMood is 'neutral' for the empty list and otherwise the
\* label of the first matching rule of the table (else 'balanced'); two
\* colours (255,255,255) give 'bright'.
C10_MoodIsFirstMatchingRule ==
    called = "analyzeColorMood" =>
        /\ out = IF Len(inColors) = 0 THEN "neutral"
                 ELSE LET hits == {k \in 1..5 : MoodRule[k]}
                      IN  IF hits = {} THEN "balanced"
                          ELSE MoodLabel[CHOOSE k \in hits : \A h \in hits : k <= h]
        /\ inColors = <<RGB(255, 255, 255), RGB(255, 255, 255)>> => out = "bright"

C10_Witness ==
    /\ called = "analyzeColorMood"
    /\ inColors = <<RGB(255, 255, 255), RGB(255, 255, 255)>>
    /\ out = "bright"

(***************************************************************************)
(* SpecCSS: the gradient composer, as the function generateWaveCSS and as  *)
(* the method WaveGenerator.generateCSS of a generator built from a        *)
(* partial configuration.                                                  *)
(***************************************************************************)
\* The partial configuration giving the keys of `ch` that hold one value.
Partial(ch) == [k \in {x \in DOMAIN ch : Len(ch[x]) = 1} |-> ch[k][1]]

PartialConfigs ==
    { Partial([direction |-> d, fallbackColors |-> f, colorCount |-> c,
               intensity |-> i, waveType |-> w]) :
        d \in {<<>>, <<"to right">>},
        f \in {<<>>, << <<"#000000">> >>},
        c \in {<<>>} \cup {<<n>> : n \in 0..MaxColorCount},
        i \in {<<>>, <<"gentle">>, <<"energetic">>},
        w \in {<<>>, <<"radial">>, <<"conic">>} }

HexPalette == {"#111111", "#222222", "#333333"}

InitCSS ==
    /\ called = "none"
    /\ inColors = <<>>
    /\ inCount = 0
    /\ inHex \in SeqUpTo(HexPalette, MaxStops)
    /\ inPixels = <<>>
    /\ out = <<>>
    /\ \E given \in PartialConfigs : config = WaveGeneratorNew(given)
    /\ SongIdle

CallGenerateWaveCSS ==
    /\ called = "none"
    /\ called' = "generateWaveCSS"
    /\ out' = generateWaveCSS(inHex, config.direction, config.waveType)
    /\ UNCHANGED <<inColors, inCount, inHex, inPixels, config, songVars>>

CallGenerateCSS ==
    /\ called = "none"
    /\ called' = "generateCSS"
    /\ out' = generateCSS(config, inHex)
    /\ UNCHANGED <<inColors, inCount, inHex, inPixels, config, songVars>>

NextCSS == CallGenerateWaveCSS \/ CallGenerateCSS

SpecCSS == InitCSS /\ [][NextCSS]_vars

\* The gradient of the configured type and direction over the given stops.
RECURSIVE StopsText(_)
StopsText(stops) ==
    IF Len(stops) = 0 THEN ""
    ELSE IF Len(stops) = 1 THEN stops[1]
    ELSE StopsText(SubSeq(stops, 1, Len(stops) - 1)) \o ", " \o stops[Len(stops)]

GradientOver(stops) ==
    IF config.waveType = "radial" THEN "radial-gradient(circle, " \o StopsText(stops) \o ")"
    ELSE IF config.waveType = "conic" THEN "conic-gradient(" \o StopsText(stops) \o ")"
    ELSE "linear-gradient(" \o config.direction \o ", " \o StopsText(stops) \o ")"

\* Fewer than 2 colours: the colours, then #6B46C1, then #EC4899, 2 in all.
PaddedToTwo(colors) ==
    IF Len(colors) = 0 THEN <<"#6B46C1", "#EC4899">>
    ELSE IF Len(colors) = 1 THEN <<colors[1], "#6B46C1">>
    ELSE colors

\* C9 as claimed: generateWaveCSS and WaveGenerator.generateCSS, under every
\* configuration, format the supplied colours, padded to two.
C9_BothPadSuppliedToTwo ==
    called \in {"generateWaveCSS", "generateCSS"} =>
        out = GradientOver(PaddedToTwo(inHex))

\* C9 as amended: generateWaveCSS does; WaveGenerator.generateCSS first cuts
\* the supplied colours, followed by the configured fallbackColors, to
\* colorCount stops, and formats those, padded to two.
C9_GenerateCSSCutsToColorCount ==
    /\ called = "generateWaveCSS" =>
          /\ out = GradientOver(PaddedToTwo(inHex))
          /\ (/\ inHex = <<"#111111", "#222222">>
              /\ config.waveType = "linear"
              /\ config.direction = "to bottom right")
                => out = "linear-gradient(to bottom right, #111111, #222222)"
    /\ called = "generateCSS" =>
          LET pool == inHex \o config.fallbackColors
              stops == [k \in 1..Min2(config.colorCount, Len(pool)) |-> pool[k]]
          IN  out = GradientOver(PaddedToTwo(stops))

\* One colour, gentle intensity, colorCount 3: two configured fallbacks follow.
C9_Witness ==
    /\ called = "generateCSS"
    /\ inHex = <<"#111111">>
    /\ config.colorCount = 3
    /\ config.intensity = "gentle"
    /\ config.waveType = "conic"
    /\ out = "conic-gradient(#111111, #E8E3F3, #F3E8FF)"


(***************************************************************************)
(* SpecCount: a Song built with each colorCount, in a browser with canvas  *)
(* support, its configuration and options left as constructed.             *)
(***************************************************************************)
CountConfigs == { [colorCount |-> n] : n \in 1..MaxColorCount }

InitCount ==
    /\ HarnessIdle
    /\ SongIdle
    /\ \E given \in CountConfigs : config = WaveGeneratorNew(given)

NextCount ==
    \/ \E c \in Slots, cacheKey \in Keys : createWavesCached(c, cacheKey)
    \/ \E c \in Slots, source \in Sources : createWavesExtract(c, source)
    \/ \E c \in Slots, image \in Images : imageLoaded(c, image)
    \/ \E c \in Slots : imageError(c)
    \/ \E c \in Slots : resumeFulfilled(c)
    \/ \E c \in Slots : resumeRejected(c)
    \/ clearCache

SpecCount == InitCount /\ [][NextCount]_vars

\* C11: a successful createWaves call returns exactly colorCount colours,
\* and they are the stops of the result's css gradient, in order.
C11_ColorCountIsNumberReturned ==
    (Len(resolved) = 1 /\ resolved[1].result.isFlowing) =>
        /\ Len(resolved[1].result.colors) = config.colorCount
        /\ resolved[1].result.css = GradientOver(resolved[1].result.colors)


(***************************************************************************)
(* SpecFreq: buildColorFrequencyMap applied to a pixel buffer, under each  *)
(* sampleRate and precision.                                               *)
(***************************************************************************)
MaxPixels == 2      \* longest pixel buffer, in pixels
MaxStride == 8      \* largest sampleRate

PixelPalette ==
    { <<200, 30, 30, 255>>, <<60, 160, 60, 255>>, <<255, 255, 255, 50>> }

RECURSIVE Flatten(_)
Flatten(pixelList) ==
    IF pixelList = <<>> THEN <<>> ELSE Head(pixelList) \o Flatten(Tail(pixelList))

Precisions == {1, 25, 100}

InitFreq ==
    /\ called = "none"
    /\ inColors = <<>>
    /\ inCount = 0
    /\ inHex = <<>>
    /\ inPixels \in { Flatten(l) : l \in SeqUpTo(PixelPalette, MaxPixels) }
    /\ out = <<>>
    /\ config = DefaultConfig
    /\ browser = TRUE
    /\ canvas = TRUE
    /\ ctx = TRUE
    /\ canvasData = "blank"
    /\ \E s \in 1..MaxStride, q \in Precisions :
           options = updateOptions(DefaultOptions, [sampleRate |-> s, precision |-> q])
    /\ cache = EmptyCache
    /\ calls = [c \in Slots |-> IdleCall]
    /\ resolved = <<>>
    /\ history = NoHistory

CallBuildColorFrequencyMap ==
    /\ called = "none"
    /\ called' = "buildColorFrequencyMap"
    /\ out' = buildColorFrequencyMap(inPixels, options)
    /\ UNCHANGED <<inColors, inCount, inHex, inPixels, config, songVars>>

NextFreq == CallBuildColorFrequencyMap

SpecFreq == InitFreq /\ [][NextFreq]_vars

\* C14: every key of the frequency map is a triple of integers in 0..255,
\* each a multiple of the precision, and is the quantized red, green and
\* blue of a pixel of the buffer with alpha >= 100 that the walk visited.
C14_KeysAreQuantizedPixels ==
    called = "buildColorFrequencyMap" =>
        \A e \in 1..Len(out) :
            /\ \A ch \in 1..3 :
                  /\ out[e].key[ch] \in 0..255
                  /\ out[e].key[ch] % options.precision = 0
            /\ \E px \in 0..(Len(inPixels) \div 4 - 1) :
                  /\ (4 * px) % options.sampleRate = 0
                  /\ inPixels[4 * px + 4] >= 100
                  /\ \A ch \in 1..3 :
                        out[e].key[ch] =
                            (inPixels[4 * px + ch] \div options.precision) * options.precision

====
